---- MODULE Spec2Model ----
(***************************************************************************)
(* Evaluation pipeline of robo-hr-this: the job rows, the artifact rows,   *)
(* the BullMQ evaluation queue and the worker processes that run           *)
(* EvaluationWorker.processEvaluation, together with the POST /evaluate    *)
(* and POST /upload route handlers that feed them.                         *)
(*                                                                         *)
(* The relational store is taken to answer every call (no repository call  *)
(* rejects); parsing, retrieval and generation may fail on every call.     *)
(***************************************************************************)
EXTENDS Integers, Sequences, FiniteSets, TLC

(* ------------------------------ bounds --------------------------------- *)

\* Number of jobs POST /evaluate may create.
MaxJobs == 2

\* Number of worker processes consuming the evaluation queue.
NumWorkers == 2

\* Number of POST /upload requests (each stores one cv and one report row).
MaxUploads == 1

\* attempts of the queue's defaultJobOptions: process.env.EVAL_MAX_ATTEMPTS.
EVAL_MAX_ATTEMPTS == 2

\* Largest maxAttempts option an executeWithRetry call is followed with.
MaxRetryAttempts == 4

\* Requests to the /ingest routes in progress at the same time.
NumIngesters == 2

\* Number of different files (contents) offered for ingestion.
MaxContents == 2

\* Number of calls to the /ingest routes.
MaxCalls == 3
\* Entries of the directory handed to processDirectory.
MaxFiles == 3
\* Words of the longest text handed to chunkText.
MaxTokens == 900
\* Processes that start up and initialize the vector store, and their starts.
NumInitializers == 2
MaxInits == 3
\* Calls of cleanupOrphanedRecords, and of clearCollection.
MaxSweeps == 1
\* POST /evaluate requests followed with their answers.
MaxRequests == 3

(* ----------------------------- value sets ------------------------------ *)

JobIds == 1..MaxJobs

Workers == 1..NumWorkers

FileIds == 1..(2 * MaxUploads + 1)

Stages == {"S1", "S2", "S3"}

\* Messages of the errors that reach the catch block of processEvaluation.
ErrFilesNotFound == "Required files not found"

ErrPdf == "PDF parsing failed"

ErrRag == "RAG service unavailable"

ErrLlmTransport == "Structured completion generation failed: provider error"

ErrLlmParse == "Structured completion generation failed: invalid JSON"

ErrStageHistory == "Previous stage results not found for final synthesis"

\* The errors a failed attempt can hand to the queue.
AttemptErrors == {ErrFilesNotFound, ErrPdf, ErrRag, ErrLlmTransport, ErrLlmParse,
                  ErrStageHistory}

\* What one run of a stage's external calls can end in.
Outcomes == {"ok", "pdf", "rag", "llm", "parse"}

NoJob == [status |-> "none", error_code |-> "null", attempts |-> 0]

NoQueueEntry == [state |-> "none", attemptsMade |-> 0, failedReason |-> "none",
                 cvFileId |-> 0, reportFileId |-> 0]

\* The numeric fields of the response a stage reads.
S1Fields == {"technical_skills", "experience_level", "relevant_achievements",
             "cultural_fit", "weighted_average_1_to_5", "cv_match_rate"}

S2Fields == {"correctness", "code_quality", "resilience", "documentation",
             "creativity", "project_score"}

StageFields(s) == IF s = "S1" THEN S1Fields ELSE S2Fields

\* Numbers a parsed response can carry in a field: below, at and above the
\* limits of both ranges.
RawVals == {-2, 0, 1, 5, 9}

\* The limits written in the Math.max / Math.min calls of the stages.
ScoreMin == 1

ScoreMax == 5

MatchRateMin == 0

MatchRateMax == 1

NoClamp == [stage |-> "none", response |-> <<>>, payload |-> <<>>, saved |-> FALSE]

\* An error object: code and status ("" and 0 when absent), the words of
\* its message, and the call of the operation that raised it (0 for an
\* error made by a wrapper).
Err(code, status, message, id) ==
    [code |-> code, status |-> status, message |-> message, id |-> id]

NoError == Err("", 0, <<>>, 0)

\* What an operation's call can reject with, as (code, status, message).
OperationErrors ==
    {<<"ECONNRESET", 0, <<"socket", "hang", "up">> >>,
     <<"", 429, <<"Too", "Many", "Requests">> >>,
     <<"", 0, <<"network", "error">> >>,
     <<"", 0, <<"Invalid", "API", "key">> >>,
     <<"", 400, <<"Bad", "Request">> >>,
     <<"", 0, <<"No", "content", "returned", "from", "OpenAI">> >>}

\* What client.search rejects with when the collection does not exist:
\* the client's error for Qdrant's 404 answer.
CollectionNotFound == <<"", 404, <<"Not", "Found">> >>

\* The options the retry tests and the services pass.
BaseDelays == {50, 1000}

MaxDelays == {100, 5000, 10000}

BackoffMultipliers == {2, 3}

\* The options generateCompletion passes (backoffMultiplier by default).
CompletionMaxAttempts == 3

CompletionBaseDelay == 1000

CompletionMaxDelay == 5000

DefaultBackoffMultiplier == 2

\* The message JSON.parse's SyntaxError carries.
SyntaxErrorMessage == <<"Unexpected", "token">>

StructuredPrefix == <<"Structured", "completion", "generation", "failed:">>

\* One executeWithRetry call about to make its first attempt.
NewRetry(caller, maxAttempts, baseDelay, maxDelay, backoffMultiplier) ==
    [at |-> "call", caller |-> caller, maxAttempts |-> maxAttempts,
     baseDelay |-> baseDelay, maxDelay |-> maxDelay,
     backoffMultiplier |-> backoffMultiplier,
     attempt |-> 1, calls |-> 0, errors |-> <<>>, delays |-> <<>>,
     lastError |-> NoError, raised |-> NoError, content |-> "none",
     failure |-> NoError]

NoRetry == [NewRetry("none", 0, 0, 0, 0) EXCEPT !.at = "idle"]

\* maxAttempts of retrieveCVContext, generateEmbeddings and searchVectors.
RagMaxAttempts == 3

EmbedMaxAttempts == 3

SearchMaxAttempts == 3

EmbeddingPrefix == <<"OpenAI", "single", "embedding", "generation", "failed:">>

\* One retrieveCVContext call about to run its operation for the first time.
NewRag ==
    [at |-> "embed", outer |-> 1, inner |-> 1,
     embedCalls |-> 0, embedFailures |-> 0,
     searchCalls |-> 0, searchFailures |-> 0,
     last |-> NoError, raised |-> NoError]

NoRag == [NewRag EXCEPT !.at = "idle"]

\* Requests to the /ingest routes that can be in progress together.
Ingesters == 1..NumIngesters

\* documentType of ingestSchema (two of its four values).
DocTypes == {"job_description", "cv_rubric"}

\* The files on disk, each known by the SHA-256 of its bytes.
Hashes == 1..MaxContents

\* Number of chunks chunkText cuts a file's text into (at least one).
ChunksOf(hash) == hash

NoDoc == [id |-> 0, type |-> "none", hash |-> 0, version |-> 0]

\* A payload value with its JavaScript type: a number, or a string such as
\* `${document.id}_${index}` kept as its parts.
Num(n) == [t |-> "number", v |-> <<n>>]

Str(parts) == [t |-> "string", v |-> parts]

NoIds == [doc |-> 1, uuid |-> 1, calls |-> 0]

NoTx == [op |-> "idle", at |-> "idle", type |-> "none", hash |-> 0, version |-> 0,
         doc |-> NoDoc, pendingDoc |-> NoDoc, pendingRefs |-> {}, delRefs |-> 0,
         found |-> FALSE, dedup |-> FALSE, conflict |-> FALSE,
         embedded |-> FALSE, committed |-> FALSE,
         ret |-> NoDoc, solo |-> FALSE,
         begun |-> FALSE, commits |-> 0, rollbacks |-> 0, releases |-> 0,
         before |-> [row |-> NoDoc, refs |-> {}, points |-> {}]]

NoDir ==
    [at |-> "idle", files |-> <<>>, i |-> 1, documents |-> <<>>,
     failedFiles |-> <<>>, ingested |-> <<>>]

NoChunks ==
    [at |-> "idle", text |-> [lead |-> 0, n |-> 0, trail |-> 0], length |-> 0,
     i |-> 0, out |-> <<>>]

Initializers == 1..NumInitializers

NoColl ==
    [exists |-> FALSE, created |-> 0, refused |-> 0, inits |-> 0,
     at |-> [p \in Initializers |-> "idle"]]

NoReply ==
    [n |-> 0, http |-> 0, cvFileId |-> 0, reportFileId |-> 0, found |-> FALSE,
     id |-> 0]

NoSweep ==
    [runs |-> 0, clears |-> 0, verified |-> FALSE, orphanedDocuments |-> {},
     orphanedEmbeddings |-> {}, cleanedUp |-> FALSE]


(* ------------------------------- state --------------------------------- *)

VARIABLES
    files,      \* rows of the files table: [id, type]
    jobs,       \* rows of the jobs table, by id: [status, error_code, attempts]
    artifacts,  \* rows of job_artifacts, by job_id, in insertion (id) order
    queue,      \* the BullMQ 'evaluation' queue entry of each job
    pc,         \* where each worker process is in processEvaluation
    cur,        \* the job (job.data.jobId) each worker is processing
    stg,        \* the stage a worker's attempt last entered
    err,        \* the error caught by processEvaluation's catch block
    call,       \* what the worker was invoked for
    clamp,      \* a structured completion and the payload a stage builds of it
    retry,      \* one RetryUtil.executeWithRetry call, its options and history
    rag,        \* one RAGService.retrieveCVContext call and its nested retries
    docs,       \* committed rows of the documents table
    refs,       \* committed rows of the embeddings table
    index,      \* the points of the Qdrant collection
    ids,        \* the documents id sequence, points written, calls made
    tx,         \* each ingest request: its call, its transaction, its result
    dir,        \* one processDirectory call
    chunks,     \* one chunkText call
    coll,       \* the Qdrant collection and the processes initializing it
    sweep,      \* the last cleanupOrphanedRecords call and what it returned
    reply       \* the last POST /evaluate request and its answer

\* The evaluation pipeline's tables, queue and workers.
sysvars == <<files, jobs, artifacts, queue, pc, cur, stg, err, call>>

\* The calls of the services the stages use, each followed on its own.
svcvars == <<clamp, retry, rag>>

\* The ground-truth documents: relational rows, index points and requests.
ingvars == <<docs, refs, index, ids, tx>>

\* Calls of the document processor and the vector store followed on their own.
auxvars == <<dir, chunks, coll, sweep, reply>>

fnvars == <<svcvars, ingvars, auxvars>>

vars == <<files, jobs, artifacts, queue, pc, cur, stg, err, call,
          clamp, retry, rag, docs, refs, index, ids, tx, dir, chunks, coll,
          sweep, reply>>

(* ------------------------------ helpers -------------------------------- *)

StageOrd(s) == CASE s = "S1" -> 1 [] s = "S2" -> 2 [] s = "S3" -> 3 [] OTHER -> 0

\* fileRepository.findOne({ where: { id, type } }) finds a row.
FileFound(id, type) == \E f \in files : f.id = id /\ f.type = type

\* artifactRepository.findOne({ where: { jobId, stage } }) finds a row.
HasStage(rows, s) == \E i \in 1..Len(rows) : rows[i].stage = s

\* Number of rows of a stage among a job's artifact rows.
StageCount(rows, s) == Cardinality({i \in 1..Len(rows) : rows[i].stage = s})

\* The delivery a worker is running: BullMQ's attemptsMade counts finished ones.
CurAttempt(j) == queue[j].attemptsMade + 1

\* The error a stage raises for an outcome of its external calls.
StageError(o) ==
    CASE o = "pdf" -> ErrPdf
      [] o = "rag" -> ErrRag
      [] o = "llm" -> ErrLlmTransport
      [] o = "parse" -> ErrLlmParse
      [] OTHER -> "none"

UpdateJobStatusAlwaysIncrement(job, status, errorCode, incrementAttempts) ==
    [status |-> status,
     error_code |-> IF errorCode # "" THEN errorCode ELSE job.error_code,
     attempts |-> job.attempts + 1]

UpdateJobStatusDropsErrorCode(job, status, errorCode, incrementAttempts) ==
    [status |-> status,
     error_code |-> job.error_code,
     attempts |-> IF incrementAttempts THEN job.attempts + 1 ELSE job.attempts]

\* updateJobStatus(jobId, status, errorCode?, incrementAttempts = false) on a
\* found row; errorCode "" stands for the omitted argument.
UpdateJobStatus(job, status, errorCode, incrementAttempts) ==
    [status |-> status,
     error_code |-> IF errorCode # "" THEN errorCode ELSE job.error_code,
     attempts |-> IF incrementAttempts THEN job.attempts + 1 ELSE job.attempts]

SetJobStatusEveryRow(j, status, errorCode, incrementAttempts) ==
    jobs' = [k \in JobIds |->
                IF jobs[k].status = "none" THEN jobs[k]
                ELSE UpdateJobStatus(jobs[k], status, errorCode, incrementAttempts)]

\* `if (job)`: a missing row is left alone.
SetJobStatus(j, status, errorCode, incrementAttempts) ==
    jobs' = IF jobs[j].status = "none"
            THEN jobs
            ELSE [jobs EXCEPT ![j] =
                     UpdateJobStatus(jobs[j], status, errorCode, incrementAttempts)]

ArtifactsAfterStagePersistFirst(rows, s, n, o) ==
    Append(rows, [stage |-> s, attempt |-> n])

\* The artifact rows of a job after a stage ran with outcome o in delivery n:
\* artifactRepository.save is the last call of the stage's try block.
ArtifactsAfterStage(rows, s, n, o) ==
    IF o = "ok" THEN Append(rows, [stage |-> s, attempt |-> n]) ELSE rows

NextPcHangs(s, o) ==
    IF o # "ok" THEN "hung"
    ELSE CASE s = "S1" -> "s2" [] s = "S2" -> "s3" [] OTHER -> "complete"

NextPcSwallowsError(s, o) ==
    CASE s = "S1" -> "s2" [] s = "S2" -> "s3" [] OTHER -> "complete"

\* Where processEvaluation goes after a stage: the next await, or its catch.
NextPc(s, o) ==
    IF o # "ok" THEN "catch"
    ELSE CASE s = "S1" -> "s2" [] s = "S2" -> "s3" [] OTHER -> "complete"

\* The rows artifactRepository.findOne({ where: { jobId, stage } }) can
\* return: the query has no order, so any row of the stage.
FindOneArtifact(rows, s) == {rows[i] : i \in {k \in 1..Len(rows) : rows[k].stage = s}}

S3PreconditionEitherPresent(rows) == HasStage(rows, "S1") \/ HasStage(rows, "S2")

\* processStageS3's guard: `if (!s1Artifact || !s2Artifact) throw`.
S3Precondition(rows) == HasStage(rows, "S1") /\ HasStage(rows, "S2")

GetResultStatusOnly(j) ==
    [http |-> 200, keys |-> {"id", "status"}, status |-> jobs[j].status,
     error_code |-> "none", attempts |-> 0, stages |-> {}]

\* GET /result/:id for job id j: the HTTP status, the keys of the JSON body,
\* and the values it takes from the job row and the artifact rows.
GetResult(j) ==
    LET job == jobs[j]
        rows == artifacts[j]
        none == [http |-> 200, keys |-> {"id", "status"}, status |-> job.status,
                 error_code |-> "none", attempts |-> 0, stages |-> {}]
    IN  IF job.status = "none"
        THEN [none EXCEPT !.http = 404, !.keys = {"error"}, !.status = "none"]
        ELSE IF job.status \in {"queued", "processing"}
        THEN none
        ELSE IF job.status = "failed"
        THEN [none EXCEPT !.http = 500,
                          !.keys = {"id", "status", "error", "error_code",
                                    "attempts", "message"},
                          !.error_code = job.error_code,
                          !.attempts = job.attempts]
        ELSE IF job.status = "completed"
        THEN IF \E s \in Stages : ~HasStage(rows, s)
             THEN [none EXCEPT !.http = 500, !.keys = {"error"}, !.status = "none"]
             ELSE [none EXCEPT !.keys = {"id", "status", "result"},
                               !.stages = Stages]
        ELSE none

MathMin(a, b) == IF a < b THEN a ELSE b

MathMax(a, b) == IF a > b THEN a ELSE b

ClampUpperOnly(lo, hi, x) == MathMin(hi, x)

\* Math.max(lo, Math.min(hi, x))
Clamp(lo, hi, x) == MathMax(lo, MathMin(hi, x))

\* The field of s1Payload / s2Payload built from the response's field.
PayloadField(f, x) ==
    IF f = "cv_match_rate"
    THEN Clamp(MatchRateMin, MatchRateMax, x)
    ELSE Clamp(ScoreMin, ScoreMax, x)

\* error.message?.includes(word), on the words of the message.
Includes(message, word) == \E i \in 1..Len(message) : message[i] = word

IsRetryableErrorAlways(error) == TRUE

IsRetryableErrorOnAnyStatus(error) ==
    \/ error.code # ""
    \/ error.status # 0
    \/ Includes(error.message, "timeout") \/ Includes(error.message, "network")

\* RetryUtil.isRetryableError
IsRetryableError(error) ==
    \/ error.code \in {"ECONNRESET", "ENOTFOUND", "ECONNREFUSED"}
    \/ error.code = "ETIMEDOUT" \/ Includes(error.message, "timeout")
    \/ error.status \in {429, 500, 502, 503}
    \/ Includes(error.message, "rate limit") \/ Includes(error.message, "quota")
    \/ Includes(error.message, "connection") \/ Includes(error.message, "network")

RECURSIVE MathPow(_, _)
MathPow(b, n) == IF n <= 0 THEN 1 ELSE b * MathPow(b, n - 1)

RetryDelayOfNextAttempt(baseDelay, maxDelay, backoffMultiplier, attempt) ==
    MathMin(baseDelay * MathPow(backoffMultiplier, attempt), maxDelay)

\* const delay = Math.min(baseDelay * Math.pow(backoffMultiplier, attempt - 1), maxDelay)
RetryDelay(baseDelay, maxDelay, backoffMultiplier, attempt) ==
    MathMin(baseDelay * MathPow(backoffMultiplier, attempt - 1), maxDelay)

AfterFailureGivesUpEarly(attempt, maxAttempts, error) ==
    IF attempt >= maxAttempts - 1 THEN "break"
    ELSE IF ~IsRetryableError(error) THEN "break"
    ELSE "sleep"

\* The catch block of the loop: break on the last attempt, break on an
\* error that is not retryable, else sleep.
AfterFailure(attempt, maxAttempts, error) ==
    IF attempt = maxAttempts THEN "break"
    ELSE IF ~IsRetryableError(error) THEN "break"
    ELSE "sleep"

\* throw lastError || new Error(`${operationName} failed after ...`)
Thrown(lastError) ==
    IF lastError # NoError THEN lastError
    ELSE Err("", 0, <<"operation", "failed", "after", "attempts">>, 0)

\* new Error(`Structured completion generation failed: ${error.message}`)
WrapStructured(error) == Err("", 0, StructuredPrefix \o error.message, 0)

\* new Error(`OpenAI single embedding generation failed: ${error.message}`)
WrapEmbedding(error) == Err("", 0, EmbeddingPrefix \o error.message, 0)

\* The operation of retrieveCVContext rejected with error in run `outer`:
\* the catch block of the enclosing executeWithRetry.
RagOperationRejects(r, error) ==
    IF AfterFailure(r.outer, RagMaxAttempts, error) = "break"
    THEN [r EXCEPT !.at = "thrown", !.raised = Thrown(error)]
    ELSE [r EXCEPT !.at = "embed", !.outer = @ + 1, !.inner = 1]

AfterCompletionCallsAgain(r) ==
    IF r.at = "thrown"
    THEN [r EXCEPT !.at = "rejected", !.failure = WrapStructured(r.raised)]
    ELSE IF r.content = "json"
         THEN [r EXCEPT !.at = "resolved"]
         ELSE [r EXCEPT !.at = "call"]

\* generateStructuredCompletion once generateCompletion settled: JSON.parse
\* of the content, and the one catch block around both.
AfterCompletion(r) ==
    IF r.at = "thrown"
    THEN [r EXCEPT !.at = "rejected", !.failure = WrapStructured(r.raised)]
    ELSE IF r.content = "json"
         THEN [r EXCEPT !.at = "resolved"]
         ELSE [r EXCEPT !.at = "rejected",
                        !.failure = WrapStructured(Err("", 0, SyntaxErrorMessage, 0))]

\* The request still holds its transaction open.
InTx(p) == tx[p].at \notin {"idle", "done", "failed"}

FindExistingDocumentNone(type, hash) == {}

\* findExistingDocument: documentRepository.findOne({ where: { type, content_hash } })
FindExistingDocument(type, hash) ==
    {d \in docs : d.type = type /\ d.hash = hash}

UniqueViolationNever(row) == FALSE

\* content_hash is `unique: true`: a committed row of another id has the hash.
UniqueViolation(row) == \E d \in docs : d.hash = row.hash /\ d.id # row.id

\* The unique index makes the statement wait while another open transaction
\* holds a row of the same hash.
WaitsForUnique(p, row) ==
    \E q \in Ingesters \ {p} :
        /\ InTx(q)
        /\ tx[q].pendingDoc # NoDoc
        /\ tx[q].pendingDoc.hash = row.hash
        /\ tx[q].pendingDoc.id # row.id

\* generateUUID: every digit is (hash + Math.random() * 16) % 16 | 0, a new
\* random digit whatever the input; the result is taken to be an id no
\* point has yet.
GenerateUUID(input, random) == random

\* A point as upsertPoints sends it: payload.original_id is the string id
\* `${document.id}_${index}`, payload.document_id the number.
Point(uuid, d, i) ==
    [id |-> uuid,
     payload |-> [document_id |-> Num(d), original_id |-> Str(<<d, i>>)]]

\* An embeddings row: chunk_id and vector_ref are `${document.id}_${index}`.
Ref(d, i) == [docId |-> d, chunk_id |-> Str(<<d, i>>)]

\* client.upsert of the n points of document d: a point replaces the one of
\* the same point id.
UpsertPoints(points, d, n, random) ==
    LET new == {Point(GenerateUUID(Str(<<d, i>>), random + i), d, i) : i \in 0..(n - 1)}
    IN  {pt \in points : \A x \in new : x.id # pt.id} \cup new

\* { must: [{ key: 'document_id', match: { value: documentId } }] }
DocumentIdFilter(d) == [key |-> "document_id", match |-> Num(d)]

\* convertFilterForQdrant: a document_id condition becomes one on original_id.
ConvertFilterForQdrant(cond) ==
    IF cond.key = "document_id"
    THEN [key |-> "original_id", match |-> cond.match]
    ELSE cond

\* Qdrant's match: the payload value under the key equals the value.
Matches(point, cond) == point.payload[cond.key] = cond.match

\* deletePoints: client.delete with the converted filter.
DeletePoints(points, cond) ==
    {pt \in points : ~Matches(pt, ConvertFilterForQdrant(cond))}

\* The points upserted for document d.
PointsOfDoc(points, d) == {pt \in points : pt.payload.document_id = Num(d)}

\* The points a chunk reference key names.
PointsOfKey(points, key) == {pt \in points : pt.payload.original_id = key}

\* chunkText(text, 512, 64) as processDocument and updateDocument call it.
ChunkSize == 512
Overlap == 64

\* A text: n words separated by white space, with or without white space
\* before the first and after the last.
Texts == [lead : {0, 1}, n : 0..MaxTokens, trail : {0, 1}]

\* text.split(/\s+/).length: white space at either end leaves an empty
\* string at that end of the array, and '' splits into [''].
SplitLength(text) ==
    IF text.n = 0
    THEN IF text.lead + text.trail > 0 THEN 2 ELSE 1
    ELSE text.lead + text.n + text.trail

\* words.slice(i, i + chunkSize) as the range of the text's words it holds
\* (the empty strings of the array are no words of the text).
SliceRange(text, length, i) ==
    [from |-> MathMax(i, text.lead) - text.lead,
     to |-> MathMin(MathMin(i + ChunkSize, length), text.lead + text.n) - text.lead]

\* The elements of a list.
Elems(s) == {s[k] : k \in 1..Len(s)}

\* A directory entry: one that does not end in '.pdf', or a PDF with the
\* type inferDocumentType gives its name, its content and what pdf-parse
\* makes of it.
DirEntries ==
    {[pdf |-> FALSE, type |-> "none", hash |-> 0, o |-> "ok"]}
    \cup [pdf : {TRUE}, type : DocTypes, hash : Hashes, o : {"ok", "pdf"}]

\* What fs.readdirSync can return.
Listings == UNION {[1..n -> DirEntries] : n \in 0..MaxFiles}

\* queryRunner.rollbackTransaction() in the catch block, the throw, and
\* queryRunner.release() in the finally block.
Rollback(r) ==
    [r EXCEPT !.at = "failed", !.pendingDoc = NoDoc, !.pendingRefs = {},
              !.delRefs = 0, !.rollbacks = @ + 1, !.releases = @ + 1]

(* ------------------------------- Init ---------------------------------- *)

\* Empty tables, an empty queue, idle workers.
SysInit ==
    /\ files = {}
    /\ jobs = [j \in JobIds |-> NoJob]
    /\ artifacts = [j \in JobIds |-> <<>>]
    /\ queue = [j \in JobIds |-> NoQueueEntry]
    /\ pc = [w \in Workers |-> "idle"]
    /\ cur = [w \in Workers |-> 0]
    /\ stg = [w \in Workers |-> "none"]
    /\ err = [w \in Workers |-> "none"]
    /\ call = [w \in Workers |-> "none"]

\* No service call is followed on its own.
\* No document, no point, no ingest request.
IngIdle ==
    /\ docs = {}
    /\ refs = {}
    /\ index = {}
    /\ ids = NoIds
    /\ tx = [p \in Ingesters |-> NoTx]

AuxIdle ==
    /\ dir = NoDir
    /\ chunks = NoChunks
    /\ coll = NoColl
    /\ sweep = NoSweep
    /\ reply = NoReply

FnIdle ==
    /\ clamp = NoClamp
    /\ retry = NoRetry
    /\ rag = NoRag
    /\ IngIdle
    /\ AuxIdle

Init ==
    /\ SysInit
    /\ FnIdle

(* --------------------------- route handlers ---------------------------- *)

\* POST /upload: one cv row and one report row, ids from the table's serial.
Upload ==
    /\ Cardinality(files) < 2 * MaxUploads
    /\ files' = files \cup {[id |-> Cardinality(files) + 1, type |-> "cv"],
                            [id |-> Cardinality(files) + 2, type |-> "report"]}
    /\ UNCHANGED <<jobs, artifacts, queue, pc, cur, stg, err, call, fnvars>>

EvaluateStatusAlwaysOk(cvFileId, reportFileId) == 200

\* POST /evaluate, the two findOne calls on the files table: 404 when the cv
\* or the report is not there.
EvaluateStatus(cvFileId, reportFileId) ==
    IF ~FileFound(cvFileId, "cv") \/ ~FileFound(reportFileId, "report")
    THEN 404 ELSE 200

\* jobRepository.save({ status: 'queued' }) and evaluationQueue.add as job j,
\* or, when add rejects, the row saved again as 'failed' with error_code
\* 'queue_error'.
CreateJob(j, cvFileId, reportFileId, addOk) ==
    /\ jobs[j].status = "none"
    /\ \A k \in JobIds : k < j => jobs[k].status # "none"
    /\ IF addOk
       THEN /\ jobs' = [jobs EXCEPT ![j] =
                           [status |-> "queued", error_code |-> "null",
                            attempts |-> 0]]
            /\ queue' = [queue EXCEPT ![j] =
                           [state |-> "waiting", attemptsMade |-> 0,
                            failedReason |-> "none",
                            cvFileId |-> cvFileId,
                            reportFileId |-> reportFileId]]
       ELSE /\ jobs' = [jobs EXCEPT ![j] =
                           [status |-> "failed",
                            error_code |-> "queue_error",
                            attempts |-> 0]]
            /\ UNCHANGED queue

\* POST /evaluate: 404 without a job when a file is missing; otherwise a job
\* row and a queue entry.
PostEvaluate(cvFileId, reportFileId, addOk) ==
    IF EvaluateStatus(cvFileId, reportFileId) = 404
    THEN UNCHANGED vars
    ELSE \E j \in JobIds :
            /\ CreateJob(j, cvFileId, reportFileId, addOk)
            /\ UNCHANGED <<files, artifacts, pc, cur, stg, err, call, fnvars>>

(* ------------------------------- worker -------------------------------- *)

DeliverWhileBusy(w, j) ==
    /\ queue[j].state = "waiting"
    /\ queue' = [queue EXCEPT ![j].state = "active"]
    /\ pc' = [pc EXCEPT ![w] = "start"]
    /\ cur' = [cur EXCEPT ![w] = j]
    /\ stg' = [stg EXCEPT ![w] = "none"]
    /\ err' = [err EXCEPT ![w] = "none"]
    /\ call' = [call EXCEPT ![w] = "processEvaluation"]
    /\ UNCHANGED <<files, jobs, artifacts, fnvars>>

DeliverAlsoActive(w, j) ==
    /\ pc[w] = "idle"
    /\ queue[j].state \in {"waiting", "active"}
    /\ queue' = [queue EXCEPT ![j].state = "active"]
    /\ pc' = [pc EXCEPT ![w] = "start"]
    /\ cur' = [cur EXCEPT ![w] = j]
    /\ stg' = [stg EXCEPT ![w] = "none"]
    /\ err' = [err EXCEPT ![w] = "none"]
    /\ call' = [call EXCEPT ![w] = "processEvaluation"]
    /\ UNCHANGED <<files, jobs, artifacts, fnvars>>

\* The queue hands a waiting job to an idle worker (concurrency: 1).
Deliver(w, j) ==
    /\ pc[w] = "idle"
    /\ queue[j].state = "waiting"
    /\ queue' = [queue EXCEPT ![j].state = "active"]
    /\ pc' = [pc EXCEPT ![w] = "start"]
    /\ cur' = [cur EXCEPT ![w] = j]
    /\ stg' = [stg EXCEPT ![w] = "none"]
    /\ err' = [err EXCEPT ![w] = "none"]
    /\ call' = [call EXCEPT ![w] = "processEvaluation"]
    /\ UNCHANGED <<files, jobs, artifacts, fnvars>>

\* await this.updateJobStatus(jobId, 'processing')
SetProcessing(w) ==
    /\ pc[w] = "start"
    /\ SetJobStatus(cur[w], "processing", "", FALSE)
    /\ pc' = [pc EXCEPT ![w] = "verify"]
    /\ UNCHANGED <<files, artifacts, queue, cur, stg, err, call, fnvars>>

\* The two fileRepository.findOne calls and `if (!cvFile || !reportFile) throw`.
VerifyFiles(w) ==
    /\ pc[w] = "verify"
    /\ IF FileFound(queue[cur[w]].cvFileId, "cv")
          /\ FileFound(queue[cur[w]].reportFileId, "report")
       THEN /\ pc' = [pc EXCEPT ![w] = "s1"]
            /\ UNCHANGED err
       ELSE /\ pc' = [pc EXCEPT ![w] = "catch"]
            /\ err' = [err EXCEPT ![w] = ErrFilesNotFound]
    /\ UNCHANGED <<files, jobs, artifacts, queue, cur, stg, call, fnvars>>

\* processStageS1 / processStageS2: parsePDF, retrieval, structured
\* completion, then artifactRepository.save; any error is rethrown.
RunStage(w, s, o) ==
    /\ stg' = [stg EXCEPT ![w] = s]
    /\ artifacts' = [artifacts EXCEPT ![cur[w]] =
                        ArtifactsAfterStage(@, s, CurAttempt(cur[w]), o)]
    /\ err' = [err EXCEPT ![w] = StageError(o)]
    /\ pc' = [pc EXCEPT ![w] = NextPc(s, o)]
    /\ UNCHANGED <<files, jobs, queue, cur, call, fnvars>>

StageS1(w, o) ==
    /\ pc[w] = "s1"
    /\ RunStage(w, "S1", o)

StageS2(w, o) ==
    /\ pc[w] = "s2"
    /\ RunStage(w, "S2", o)

\* processStageS3, the lookups: both findOne calls and the guard.
StageS3Find(w) ==
    /\ pc[w] = "s3"
    /\ stg' = [stg EXCEPT ![w] = "S3"]
    /\ IF S3Precondition(artifacts[cur[w]])
       THEN /\ pc' = [pc EXCEPT ![w] = "s3gen"]
            /\ UNCHANGED err
       ELSE /\ pc' = [pc EXCEPT ![w] = "catch"]
            /\ err' = [err EXCEPT ![w] = ErrStageHistory]
    /\ UNCHANGED <<files, jobs, artifacts, queue, cur, call, fnvars>>

\* processStageS3, the try block: retrieval, completion, save (no PDF).
StageS3Gen(w, o) ==
    /\ pc[w] = "s3gen"
    /\ o # "pdf"
    /\ RunStage(w, "S3", o)

\* await this.updateJobStatus(jobId, 'completed')
Complete(w) ==
    /\ pc[w] = "complete"
    /\ call[w] = "processEvaluation"
    /\ SetJobStatus(cur[w], "completed", "", FALSE)
    /\ pc' = [pc EXCEPT ![w] = "return"]
    /\ UNCHANGED <<files, artifacts, queue, cur, stg, err, call, fnvars>>

\* return { success: true, jobId }: the queue marks the entry completed.
Return(w) ==
    /\ pc[w] = "return"
    /\ queue' = [queue EXCEPT ![cur[w]].state = "completed"]
    /\ pc' = [pc EXCEPT ![w] = "idle"]
    /\ cur' = [cur EXCEPT ![w] = 0]
    /\ stg' = [stg EXCEPT ![w] = "none"]
    /\ call' = [call EXCEPT ![w] = "none"]
    /\ UNCHANGED <<files, jobs, artifacts, err, fnvars>>

CatchKeepsAttempts(w) ==
    /\ pc[w] = "catch"
    /\ call[w] = "processEvaluation"
    /\ SetJobStatus(cur[w], "failed", "processing_error", FALSE)
    /\ pc' = [pc EXCEPT ![w] = "rethrow"]
    /\ UNCHANGED <<files, artifacts, queue, cur, stg, err, call, fnvars>>

\* catch: await this.updateJobStatus(jobId, 'failed', 'processing_error', true)
Catch(w) ==
    /\ pc[w] = "catch"
    /\ call[w] = "processEvaluation"
    /\ SetJobStatus(cur[w], "failed", "processing_error", TRUE)
    /\ pc' = [pc EXCEPT ![w] = "rethrow"]
    /\ UNCHANGED <<files, artifacts, queue, cur, stg, err, call, fnvars>>

\* The queue's handling of a rejected processor: one more attempt made, the
\* job waits for its next delivery while attempts remain, else it is failed.
QueueOnFailed(entry, reason) ==
    [entry EXCEPT
        !.attemptsMade = @ + 1,
        !.failedReason = reason,
        !.state = IF entry.attemptsMade + 1 < EVAL_MAX_ATTEMPTS
                  THEN "waiting" ELSE "failed"]

RethrowGeneric(w) ==
    /\ pc[w] = "rethrow"
    /\ queue' = [queue EXCEPT ![cur[w]] = QueueOnFailed(@, "Evaluation failed")]
    /\ pc' = [pc EXCEPT ![w] = "idle"]
    /\ cur' = [cur EXCEPT ![w] = 0]
    /\ stg' = [stg EXCEPT ![w] = "none"]
    /\ err' = [err EXCEPT ![w] = "none"]
    /\ call' = [call EXCEPT ![w] = "none"]
    /\ UNCHANGED <<files, jobs, artifacts, fnvars>>

\* catch: `throw error`, the caught error goes to the queue.
Rethrow(w) ==
    /\ pc[w] = "rethrow"
    /\ queue' = [queue EXCEPT ![cur[w]] = QueueOnFailed(@, err[w])]
    /\ pc' = [pc EXCEPT ![w] = "idle"]
    /\ cur' = [cur EXCEPT ![w] = 0]
    /\ stg' = [stg EXCEPT ![w] = "none"]
    /\ err' = [err EXCEPT ![w] = "none"]
    /\ call' = [call EXCEPT ![w] = "none"]
    /\ UNCHANGED <<files, jobs, artifacts, fnvars>>

(* ---------------------------- specification ---------------------------- *)

Next ==
    \/ Upload
    \/ \E c \in FileIds, r \in FileIds, ok \in BOOLEAN : PostEvaluate(c, r, ok)
    \/ \E w \in Workers, j \in JobIds : Deliver(w, j)
    \/ \E w \in Workers : SetProcessing(w)
    \/ \E w \in Workers : VerifyFiles(w)
    \/ \E w \in Workers, o \in Outcomes : StageS1(w, o)
    \/ \E w \in Workers, o \in Outcomes : StageS2(w, o)
    \/ \E w \in Workers : StageS3Find(w)
    \/ \E w \in Workers, o \in Outcomes : StageS3Gen(w, o)
    \/ \E w \in Workers : Complete(w)
    \/ \E w \in Workers : Return(w)
    \/ \E w \in Workers : Catch(w)
    \/ \E w \in Workers : Rethrow(w)

Spec == Init /\ [][Next]_vars

(* ------------------- processStageS3 applied on its own ------------------ *)

\* processStageS3(jobId) applied on its own, while no worker is running, to
\* any job the queue will not deliver again and that has no synthesis yet,
\* whatever other rows the job has.
InvokeStageS3(w, j) ==
    /\ \A v \in Workers : pc[v] = "idle"
    /\ jobs[j].status # "none"
    /\ queue[j].state \in {"none", "failed"}
    /\ ~HasStage(artifacts[j], "S3")
    /\ pc' = [pc EXCEPT ![w] = "s3"]
    /\ cur' = [cur EXCEPT ![w] = j]
    /\ stg' = [stg EXCEPT ![w] = "none"]
    /\ err' = [err EXCEPT ![w] = "none"]
    /\ call' = [call EXCEPT ![w] = "processStageS3"]
    /\ UNCHANGED <<files, jobs, artifacts, queue, fnvars>>

\* The direct call resolves or rejects; no job row or queue entry is touched.
S3Return(w) ==
    /\ call[w] = "processStageS3"
    /\ pc[w] \in {"complete", "catch"}
    /\ pc' = [pc EXCEPT ![w] = "idle"]
    /\ cur' = [cur EXCEPT ![w] = 0]
    /\ stg' = [stg EXCEPT ![w] = "none"]
    /\ err' = [err EXCEPT ![w] = "none"]
    /\ call' = [call EXCEPT ![w] = "none"]
    /\ UNCHANGED <<files, jobs, artifacts, queue, fnvars>>

NextS3 ==
    \/ Next
    \/ \E w \in Workers, j \in JobIds : InvokeStageS3(w, j)
    \/ \E w \in Workers : S3Return(w)

SpecS3 == Init /\ [][NextS3]_vars

(* --------------------- POST /evaluate and its answer -------------------- *)

\* POST /evaluate with the answer the client gets: res.status(404) and no
\* job, or res.json({ id, status }) of the job created.
EvaluateRequest(cvFileId, reportFileId, addOk) ==
    /\ reply.n < MaxRequests
    /\ LET asked == [NoReply EXCEPT
                        !.n = reply.n + 1,
                        !.cvFileId = cvFileId, !.reportFileId = reportFileId,
                        !.found = /\ \E f \in files : f.id = cvFileId /\ f.type = "cv"
                                  /\ \E f \in files : f.id = reportFileId
                                                       /\ f.type = "report"]
       IN  IF EvaluateStatus(cvFileId, reportFileId) = 404
           THEN /\ reply' = [asked EXCEPT !.http = 404]
                /\ UNCHANGED <<jobs, queue>>
           ELSE \E j \in JobIds :
                   /\ CreateJob(j, cvFileId, reportFileId, addOk)
                   /\ reply' = [asked EXCEPT !.http = 200, !.id = j]
    /\ UNCHANGED <<files, artifacts, pc, cur, stg, err, call,
                   svcvars, ingvars, dir, chunks, coll, sweep>>

NextEvaluate ==
    \/ Upload
    \/ \E c \in FileIds, r \in FileIds, ok \in BOOLEAN : EvaluateRequest(c, r, ok)

SpecEvaluate == Init /\ [][NextEvaluate]_vars

(* ------------- processEvaluation on job data nobody checked ------------- *)

\* A job row and a queue entry whose data names a cv or a report the files
\* table does not hold: processEvaluation takes job.data as the queue
\* stores it and looks the files up itself.
AddJobUnchecked(cvFileId, reportFileId) ==
    /\ ~(FileFound(cvFileId, "cv") /\ FileFound(reportFileId, "report"))
    /\ \E j \in JobIds :
          /\ jobs[j].status = "none"
          /\ \A i \in JobIds : i < j => jobs[i].status # "none"
          /\ jobs' = [jobs EXCEPT ![j] =
                         [status |-> "queued", error_code |-> "null",
                          attempts |-> 0]]
          /\ queue' = [queue EXCEPT ![j] =
                         [state |-> "waiting", attemptsMade |-> 0,
                          failedReason |-> "none",
                          cvFileId |-> cvFileId,
                          reportFileId |-> reportFileId]]
    /\ UNCHANGED <<files, artifacts, pc, cur, stg, err, call, fnvars>>

NextFiles ==
    \/ Next
    \/ \E c \in FileIds, r \in FileIds : AddJobUnchecked(c, r)

SpecFiles == Init /\ [][NextFiles]_vars

(* ------------------------- workers that keep going ---------------------- *)

\* The steps of one worker process inside processEvaluation.
WorkerStep(w) ==
    \/ SetProcessing(w)
    \/ VerifyFiles(w)
    \/ \E o \in Outcomes : StageS1(w, o)
    \/ \E o \in Outcomes : StageS2(w, o)
    \/ StageS3Find(w)
    \/ \E o \in Outcomes : StageS3Gen(w, o)
    \/ Complete(w)
    \/ Return(w)
    \/ Catch(w)
    \/ Rethrow(w)

\* Every await of a running processEvaluation settles: a worker process
\* that can take its next step takes it.
FairSpec == Spec /\ \A w \in Workers : WF_vars(WorkerStep(w))

(* ------------------- the payload a stage builds and saves --------------- *)

\* A stage holding the parsed response of generateStructuredCompletion,
\* with any number in each numeric field.
InitClamp ==
    /\ SysInit
    /\ clamp \in {[stage |-> s, response |-> r, payload |-> <<>>, saved |-> FALSE] :
                    s \in {"S1"}, r \in [S1Fields -> RawVals]}
                 \cup
                 {[stage |-> s, response |-> r, payload |-> <<>>, saved |-> FALSE] :
                    s \in {"S2"}, r \in [S2Fields -> RawVals]}
    /\ retry = NoRetry
    /\ rag = NoRag
    /\ IngIdle
    /\ AuxIdle

\* processStageS1: s1Payload from llmResponse, then artifactRepository.save.
BuildS1Payload ==
    /\ clamp.stage = "S1"
    /\ ~clamp.saved
    /\ clamp' = [clamp EXCEPT
                    !.payload = [f \in S1Fields |-> PayloadField(f, clamp.response[f])],
                    !.saved = TRUE]
    /\ UNCHANGED <<sysvars, retry, rag, ingvars, auxvars>>

\* processStageS2: s2Payload from llmResponse, then artifactRepository.save.
BuildS2Payload ==
    /\ clamp.stage = "S2"
    /\ ~clamp.saved
    /\ clamp' = [clamp EXCEPT
                    !.payload = [f \in S2Fields |-> PayloadField(f, clamp.response[f])],
                    !.saved = TRUE]
    /\ UNCHANGED <<sysvars, retry, rag, ingvars, auxvars>>

NextClamp ==
    \/ BuildS1Payload
    \/ BuildS2Payload

SpecClamp == InitClamp /\ [][NextClamp]_vars

(* ----------------------- RetryUtil.executeWithRetry --------------------- *)

\* One executeWithRetry call: of any operation with any of the options, or
\* the one generateStructuredCompletion makes through generateCompletion.
InitRetry ==
    /\ SysInit
    /\ clamp = NoClamp
    /\ retry \in {NewRetry("operation", m, b, x, k) :
                    m \in 1..MaxRetryAttempts, b \in BaseDelays,
                    x \in MaxDelays, k \in BackoffMultipliers}
                 \cup
                 {NewRetry("generateStructuredCompletion", CompletionMaxAttempts,
                           CompletionBaseDelay, CompletionMaxDelay,
                           DefaultBackoffMultiplier)}
    /\ rag = NoRag
    /\ IngIdle
    /\ AuxIdle

\* `await operation()` rejects: the catch block of the loop.
RetryOperationRejects(e) ==
    /\ retry.at = "call"
    /\ LET error == Err(e[1], e[2], e[3], retry.calls + 1)
           step == AfterFailure(retry.attempt, retry.maxAttempts, error)
       IN  retry' = [retry EXCEPT
               !.calls = @ + 1,
               !.errors = Append(@, error),
               !.lastError = error,
               !.at = IF step = "break" THEN "thrown" ELSE "sleep",
               !.raised = IF step = "break" THEN Thrown(error) ELSE @,
               !.delays = IF step = "break" THEN @
                          ELSE Append(@, RetryDelay(retry.baseDelay, retry.maxDelay,
                                                    retry.backoffMultiplier,
                                                    retry.attempt))]
    /\ UNCHANGED <<sysvars, clamp, rag, ingvars, auxvars>>

\* `await operation()` resolves: `return result`.
RetryOperationResolves(c) ==
    /\ retry.at = "call"
    /\ (c = "result") = (retry.caller = "operation")
    /\ retry' = [retry EXCEPT !.calls = @ + 1, !.content = c, !.at = "returned"]
    /\ UNCHANGED <<sysvars, clamp, rag, ingvars, auxvars>>

\* `await this.sleep(delay)` is over: attempt++ and the loop's condition.
RetrySleepOver ==
    /\ retry.at = "sleep"
    /\ retry' = [retry EXCEPT
                    !.attempt = @ + 1,
                    !.at = IF retry.attempt + 1 <= retry.maxAttempts
                           THEN "call" ELSE "thrown",
                    !.raised = IF retry.attempt + 1 <= retry.maxAttempts
                               THEN @ ELSE Thrown(retry.lastError)]
    /\ UNCHANGED <<sysvars, clamp, rag, ingvars, auxvars>>

\* generateStructuredCompletion after its generateCompletion call settled.
StructuredCompletionSettles ==
    /\ retry.caller = "generateStructuredCompletion"
    /\ retry.at \in {"returned", "thrown"}
    /\ retry' = AfterCompletion(retry)
    /\ UNCHANGED <<sysvars, clamp, rag, ingvars, auxvars>>

NextRetry ==
    \/ \E e \in OperationErrors : RetryOperationRejects(e)
    \/ \E c \in {"result", "json", "text"} : RetryOperationResolves(c)
    \/ RetrySleepOver
    \/ StructuredCompletionSettles

SpecRetry == InitRetry /\ [][NextRetry]_vars

(* --------------------- RAGService.retrieveCVContext --------------------- *)

InitRag ==
    /\ SysInit
    /\ clamp = NoClamp
    /\ retry = NoRetry
    /\ rag = NewRag
    /\ IngIdle
    /\ AuxIdle

\* client.embeddings.create rejects inside generateEmbeddings' retry loop;
\* when that loop gives up, generateEmbedding wraps the error and the
\* operation of retrieveCVContext rejects with it.
RagEmbedRejects(e) ==
    /\ rag.at = "embed"
    /\ LET error == Err(e[1], e[2], e[3], rag.embedCalls + 1)
           counted == [rag EXCEPT !.embedCalls = @ + 1, !.embedFailures = @ + 1,
                                  !.last = error]
       IN  rag' = IF AfterFailure(rag.inner, EmbedMaxAttempts, error) = "sleep"
                  THEN [counted EXCEPT !.inner = @ + 1]
                  ELSE RagOperationRejects(counted, WrapEmbedding(Thrown(error)))
    /\ UNCHANGED <<sysvars, clamp, retry, ingvars, auxvars>>

\* client.embeddings.create resolves: the query embedding is there.
RagEmbedResolves ==
    /\ rag.at = "embed"
    /\ rag' = [rag EXCEPT !.embedCalls = @ + 1, !.at = "search", !.inner = 1]
    /\ UNCHANGED <<sysvars, clamp, retry, ingvars, auxvars>>

\* client.search rejects inside searchVectors' retry loop; when that loop
\* gives up, its error is the rejection of retrieveCVContext's operation.
RagSearchRejects(e) ==
    /\ rag.at = "search"
    /\ LET error == Err(e[1], e[2], e[3], rag.searchCalls + 1)
           counted == [rag EXCEPT !.searchCalls = @ + 1, !.searchFailures = @ + 1,
                                  !.last = error]
       IN  rag' = IF AfterFailure(rag.inner, SearchMaxAttempts, error) = "sleep"
                  THEN [counted EXCEPT !.inner = @ + 1]
                  ELSE RagOperationRejects(counted, Thrown(error))
    /\ UNCHANGED <<sysvars, clamp, retry, ingvars, auxvars>>

\* client.search resolves: context and sources are returned.
RagSearchResolves ==
    /\ rag.at = "search"
    /\ rag' = [rag EXCEPT !.searchCalls = @ + 1, !.at = "returned"]
    /\ UNCHANGED <<sysvars, clamp, retry, ingvars, auxvars>>

NextRag ==
    \/ \E e \in OperationErrors : RagEmbedRejects(e)
    \/ RagEmbedResolves
    \/ \E e \in OperationErrors \cup {CollectionNotFound} : RagSearchRejects(e)
    \/ RagSearchResolves

SpecRag == InitRag /\ [][NextRag]_vars

(* ---------------------- the /ingest routes' calls ----------------------- *)

\* processDocument up to the PDF: connect and startTransaction (outside the
\* try block), the hash, findExistingDocument, and either the early return
\* or pdf(pdfBuffer).
IngestBegin(p, type, hash, o) ==
    /\ ~InTx(p)
    /\ ids.calls < MaxCalls
    /\ LET existing == FindExistingDocument(type, hash)
           start == [NoTx EXCEPT
                        !.op = "ingest", !.type = type, !.hash = hash,
                        !.version = 1, !.begun = (o # "begin"),
                        !.found = /\ o # "begin"
                                  /\ \E d \in docs : d.type = type /\ d.hash = hash,
                        !.solo = \A q \in Ingesters \ {p} : ~InTx(q)]
       IN  tx' = [q \in Ingesters |->
                    IF q # p
                    THEN IF InTx(q) THEN [tx[q] EXCEPT !.solo = FALSE] ELSE tx[q]
                    ELSE IF o = "begin" THEN [start EXCEPT !.at = "failed"]
                    ELSE IF existing # {}
                    THEN [start EXCEPT !.at = "done", !.dedup = TRUE,
                                       !.ret = CHOOSE d \in existing : TRUE,
                                       !.rollbacks = 1, !.releases = 1]
                    ELSE IF o = "pdf" THEN Rollback(start)
                    ELSE [start EXCEPT !.at = "savedoc"]]
    /\ ids' = [ids EXCEPT !.calls = @ + 1]
    /\ UNCHANGED <<sysvars, svcvars, auxvars, docs, refs, index>>

\* POST /ingest/update: the document found by id among getAllDocuments(),
\* then updateDocument up to the PDF.
UpdateBegin(p, d, hash, o) ==
    /\ ~InTx(p)
    /\ ids.calls < MaxCalls
    /\ d \in docs
    /\ LET start == [NoTx EXCEPT
                        !.op = "update", !.type = d.type, !.hash = hash,
                        !.version = d.version + 1, !.doc = d,
                        !.begun = (o # "begin"),
                        !.solo = \A q \in Ingesters \ {p} : ~InTx(q),
                        !.before = [row |-> d,
                                    refs |-> {r \in refs : r.docId = d.id},
                                    points |-> PointsOfDoc(index, d.id)]]
       IN  tx' = [q \in Ingesters |->
                    IF q # p
                    THEN IF InTx(q) THEN [tx[q] EXCEPT !.solo = FALSE] ELSE tx[q]
                    ELSE IF o = "begin" THEN [start EXCEPT !.at = "failed"]
                    ELSE IF o = "pdf" THEN Rollback(start)
                    ELSE [start EXCEPT !.at = "savedoc"]]
    /\ ids' = [ids EXCEPT !.calls = @ + 1]
    /\ UNCHANGED <<sysvars, svcvars, auxvars, docs, refs, index>>

\* DELETE /ingest/documents/:id: deleteDocument(documentId), connect and
\* startTransaction.
DeleteBegin(p, documentId, o) ==
    /\ ~InTx(p)
    /\ ids.calls < MaxCalls
    /\ tx' = [q \in Ingesters |->
                IF q # p
                THEN IF InTx(q) THEN [tx[q] EXCEPT !.solo = FALSE] ELSE tx[q]
                ELSE [NoTx EXCEPT
                         !.op = "delete",
                         !.at = IF o = "begin" THEN "failed" ELSE "delpoints",
                         !.begun = (o # "begin"),
                         !.doc = [NoDoc EXCEPT !.id = documentId],
                         !.solo = \A v \in Ingesters \ {p} : ~InTx(v),
                         !.before = [row |-> IF \E d \in docs : d.id = documentId
                                             THEN CHOOSE d \in docs : d.id = documentId
                                             ELSE NoDoc,
                                     refs |-> {r \in refs : r.docId = documentId},
                                     points |-> PointsOfDoc(index, documentId)]]]
    /\ ids' = [ids EXCEPT !.calls = @ + 1]
    /\ UNCHANGED <<sysvars, svcvars, auxvars, docs, refs, index>>

\* queryRunner.manager.save(Document, ...): the insert of processDocument
\* or the update of updateDocument, inside the transaction.
SaveDocument(p, o) ==
    /\ tx[p].at = "savedoc"
    /\ LET row == IF tx[p].op = "ingest"
                  THEN [id |-> ids.doc, type |-> tx[p].type,
                        hash |-> tx[p].hash, version |-> tx[p].version]
                  ELSE [tx[p].doc EXCEPT !.hash = tx[p].hash,
                                         !.version = tx[p].version]
       IN  /\ ~WaitsForUnique(p, row)
           /\ IF o = "reject" \/ UniqueViolation(row)
              THEN /\ tx' = [tx EXCEPT ![p] =
                               [Rollback(@) EXCEPT !.conflict = UniqueViolation(row)]]
                   /\ UNCHANGED ids
              ELSE /\ tx' = [tx EXCEPT ![p] =
                               [@ EXCEPT !.pendingDoc = row, !.doc = row,
                                         !.at = IF tx[p].op = "ingest"
                                                THEN "index" ELSE "delpoints"]]
                   /\ ids' = [ids EXCEPT !.doc = IF tx[p].op = "ingest"
                                                 THEN @ + 1 ELSE @]
    /\ UNCHANGED <<sysvars, svcvars, auxvars, docs, refs, index>>

\* vectorDb.deletePoints by document_id; in updateDocument followed by
\* queryRunner.manager.delete(Embedding, { docId }).
DeleteOldPoints(p, o) ==
    /\ tx[p].at = "delpoints"
    /\ o = "reject" => tx[p].op = "update"
    /\ index' = IF o = "vector" THEN index
                ELSE DeletePoints(index, DocumentIdFilter(tx[p].doc.id))
    /\ tx' = [tx EXCEPT ![p] =
                 IF o # "ok" THEN Rollback(@)
                 ELSE IF tx[p].op = "update"
                 THEN [@ EXCEPT !.delRefs = tx[p].doc.id, !.at = "index"]
                 ELSE [@ EXCEPT !.at = "delrows"]]
    /\ UNCHANGED <<sysvars, svcvars, auxvars, docs, refs, ids>>

IndexChunksSwallowsFailure(p, o) ==
    /\ tx[p].at = "index"
    /\ tx' = [tx EXCEPT ![p] = [@ EXCEPT !.embedded = (o # "embed"),
                                          !.at = "saverefs"]]
    /\ IF o = "ok"
       THEN /\ index' = UpsertPoints(index, tx[p].doc.id, ChunksOf(tx[p].hash),
                                     ids.uuid)
            /\ ids' = [ids EXCEPT !.uuid = @ + ChunksOf(tx[p].hash)]
       ELSE UNCHANGED <<index, ids>>
    /\ UNCHANGED <<sysvars, svcvars, auxvars, docs, refs>>

\* chunkText, generateEmbeddings(chunks), vectorDb.upsertPoints(points).
IndexChunks(p, o) ==
    /\ tx[p].at = "index"
    /\ IF o = "ok"
       THEN /\ index' = UpsertPoints(index, tx[p].doc.id, ChunksOf(tx[p].hash),
                                     ids.uuid)
            /\ ids' = [ids EXCEPT !.uuid = @ + ChunksOf(tx[p].hash)]
            /\ tx' = [tx EXCEPT ![p] = [@ EXCEPT !.embedded = TRUE,
                                                  !.at = "saverefs"]]
       ELSE /\ tx' = [tx EXCEPT ![p] =
                        [Rollback(@) EXCEPT !.embedded = (o = "upsert")]]
            /\ UNCHANGED <<index, ids>>
    /\ UNCHANGED <<sysvars, svcvars, auxvars, docs, refs>>

\* queryRunner.manager.save(Embedding, embeddingRefs)
SaveRefs(p, o) ==
    /\ tx[p].at = "saverefs"
    /\ tx' = [tx EXCEPT ![p] =
                 IF o = "reject" THEN Rollback(@)
                 ELSE [@ EXCEPT
                          !.pendingRefs = {Ref(tx[p].doc.id, i) :
                                             i \in 0..(ChunksOf(tx[p].hash) - 1)},
                          !.at = "commit"]]
    /\ UNCHANGED <<sysvars, svcvars, auxvars, docs, refs, index, ids>>

\* queryRunner.commitTransaction() of processDocument or updateDocument,
\* then the return and the finally block; a rejected commit goes to catch.
Commit(p, o) ==
    /\ tx[p].at = "commit"
    /\ IF o = "reject"
       THEN /\ tx' = [tx EXCEPT ![p] = Rollback(@)]
            /\ UNCHANGED <<docs, refs>>
       ELSE /\ docs' = {d \in docs : d.id # tx[p].pendingDoc.id}
                       \cup {tx[p].pendingDoc}
            /\ refs' = {r \in refs : r.docId # tx[p].delRefs} \cup tx[p].pendingRefs
            /\ tx' = [tx EXCEPT ![p] =
                         [@ EXCEPT !.at = "done", !.committed = TRUE,
                                   !.commits = @ + 1, !.releases = @ + 1,
                                   !.ret = tx[p].pendingDoc, !.pendingDoc = NoDoc,
                                   !.pendingRefs = {}, !.delRefs = 0]]
    /\ UNCHANGED <<sysvars, svcvars, auxvars, index, ids>>

DeleteRowsWithoutRollback(p, o) ==
    /\ tx[p].at = "delrows"
    /\ docs' = {d \in docs : d.id # tx[p].doc.id}
    /\ refs' = {r \in refs : r.docId # tx[p].doc.id}
    /\ tx' = [tx EXCEPT ![p] =
                 IF o = "reject" THEN Rollback(@)
                 ELSE [@ EXCEPT !.at = "done", !.committed = TRUE,
                                !.commits = @ + 1, !.releases = @ + 1]]
    /\ UNCHANGED <<sysvars, svcvars, auxvars, index, ids>>

\* deleteDocument: manager.delete(Embedding), manager.delete(Document), commit.
DeleteRows(p, o) ==
    /\ tx[p].at = "delrows"
    /\ IF o = "reject"
       THEN /\ tx' = [tx EXCEPT ![p] = Rollback(@)]
            /\ UNCHANGED <<docs, refs>>
       ELSE /\ docs' = {d \in docs : d.id # tx[p].doc.id}
            /\ refs' = {r \in refs : r.docId # tx[p].doc.id}
            /\ tx' = [tx EXCEPT ![p] =
                         [@ EXCEPT !.at = "done", !.committed = TRUE,
                                   !.commits = @ + 1, !.releases = @ + 1]]
    /\ UNCHANGED <<sysvars, svcvars, auxvars, index, ids>>

NextIngest ==
    \/ \E p \in Ingesters, t \in DocTypes, h \in Hashes, o \in {"ok", "pdf", "begin"} :
          IngestBegin(p, t, h, o)
    \/ \E p \in Ingesters, d \in docs, h \in Hashes, o \in {"ok", "pdf", "begin"} :
          UpdateBegin(p, d, h, o)
    \/ \E p \in Ingesters, d \in 1..MaxCalls, o \in {"ok", "begin"} :
          DeleteBegin(p, d, o)
    \/ \E p \in Ingesters, o \in {"ok", "reject"} : SaveDocument(p, o)
    \/ \E p \in Ingesters, o \in {"ok", "vector", "reject"} : DeleteOldPoints(p, o)
    \/ \E p \in Ingesters, o \in {"ok", "embed", "upsert"} : IndexChunks(p, o)
    \/ \E p \in Ingesters, o \in {"ok", "reject"} : SaveRefs(p, o)
    \/ \E p \in Ingesters, o \in {"ok", "reject"} : Commit(p, o)
    \/ \E p \in Ingesters, o \in {"ok", "reject"} : DeleteRows(p, o)

SpecIngest == Init /\ [][NextIngest]_vars

(* --------------------------- processDirectory --------------------------- *)

\* fs.readdirSync(directoryPath): the listing, or the throw that the outer
\* catch turns into 'Directory processing failed'.
DirBegin(listing, o) ==
    /\ dir.at = "idle"
    /\ dir' = IF o = "readdir" THEN [NoDir EXCEPT !.at = "thrown"]
              ELSE [NoDir EXCEPT !.at = "loop", !.files = listing]
    /\ UNCHANGED <<sysvars, svcvars, ingvars, chunks, coll, sweep, reply>>

DirStepAborts ==
    /\ dir.at = "loop"
    /\ dir.i <= Len(dir.files)
    /\ LET f == dir.files[dir.i]
           existing == FindExistingDocument(f.type, f.hash)
           row == [id |-> ids.doc, type |-> f.type, hash |-> f.hash, version |-> 1]
       IN  IF ~f.pdf
           THEN /\ dir' = [dir EXCEPT !.i = @ + 1]
                /\ UNCHANGED <<docs, refs, index, ids>>
           ELSE IF existing # {}
           THEN /\ dir' = [dir EXCEPT !.i = @ + 1,
                                       !.documents = Append(@, CHOOSE d \in existing : TRUE),
                                       !.ingested = Append(@, dir.i)]
                /\ UNCHANGED <<docs, refs, index, ids>>
           ELSE IF f.o # "ok" \/ UniqueViolation(row)
           THEN /\ dir' = [dir EXCEPT !.at = "thrown",
                                       !.failedFiles = Append(@, dir.i)]
                /\ UNCHANGED <<docs, refs, index, ids>>
           ELSE /\ dir' = [dir EXCEPT !.i = @ + 1,
                                       !.documents = Append(@, row),
                                       !.ingested = Append(@, dir.i)]
                /\ docs' = docs \cup {row}
                /\ index' = UpsertPoints(index, row.id, ChunksOf(row.hash), ids.uuid)
                /\ refs' = refs \cup {Ref(row.id, c) : c \in 0..(ChunksOf(row.hash) - 1)}
                /\ ids' = [ids EXCEPT !.doc = @ + 1, !.uuid = @ + ChunksOf(row.hash)]
    /\ UNCHANGED <<sysvars, svcvars, tx, chunks, coll, sweep, reply>>

\* One turn of `for (const file of files)`: the endsWith('.pdf') test, then
\* processDocument run to its end inside the try, with documents.push on
\* its return and failedFiles.push in the catch.
DirStep ==
    /\ dir.at = "loop"
    /\ dir.i <= Len(dir.files)
    /\ LET f == dir.files[dir.i]
           existing == FindExistingDocument(f.type, f.hash)
           row == [id |-> ids.doc, type |-> f.type, hash |-> f.hash, version |-> 1]
       IN  IF ~f.pdf
           THEN /\ dir' = [dir EXCEPT !.i = @ + 1]
                /\ UNCHANGED <<docs, refs, index, ids>>
           ELSE IF existing # {}
           THEN /\ dir' = [dir EXCEPT !.i = @ + 1,
                                       !.documents = Append(@, CHOOSE d \in existing : TRUE),
                                       !.ingested = Append(@, dir.i)]
                /\ UNCHANGED <<docs, refs, index, ids>>
           ELSE IF f.o # "ok" \/ UniqueViolation(row)
           THEN /\ dir' = [dir EXCEPT !.i = @ + 1,
                                       !.failedFiles = Append(@, dir.i)]
                /\ UNCHANGED <<docs, refs, index, ids>>
           ELSE /\ dir' = [dir EXCEPT !.i = @ + 1,
                                       !.documents = Append(@, row),
                                       !.ingested = Append(@, dir.i)]
                /\ docs' = docs \cup {row}
                /\ index' = UpsertPoints(index, row.id, ChunksOf(row.hash), ids.uuid)
                /\ refs' = refs \cup {Ref(row.id, c) : c \in 0..(ChunksOf(row.hash) - 1)}
                /\ ids' = [ids EXCEPT !.doc = @ + 1, !.uuid = @ + ChunksOf(row.hash)]
    /\ UNCHANGED <<sysvars, svcvars, tx, chunks, coll, sweep, reply>>

\* The loop is over: the summary is logged and `return documents`.
DirReturn ==
    /\ dir.at = "loop"
    /\ dir.i > Len(dir.files)
    /\ dir' = [dir EXCEPT !.at = "returned"]
    /\ UNCHANGED <<sysvars, svcvars, ingvars, chunks, coll, sweep, reply>>

NextDir ==
    \/ \E listing \in Listings, o \in {"ok", "readdir"} : DirBegin(listing, o)
    \/ DirStep
    \/ DirReturn

SpecDir == Init /\ [][NextDir]_vars

(* ------------------------------ chunkText ------------------------------- *)

\* const words = text.split(/\s+/); const chunks = []; let i = 0
ChunkBegin(text) ==
    /\ chunks.at = "idle"
    /\ chunks' = [NoChunks EXCEPT !.at = "loop", !.text = text,
                                  !.length = SplitLength(text)]
    /\ UNCHANGED <<sysvars, svcvars, ingvars, dir, coll, sweep, reply>>

\* One turn of the for loop: the slice is joined and pushed when it is
\* not blank, then i += chunkSize - overlap.
ChunkStep ==
    /\ chunks.at = "loop"
    /\ chunks.i < chunks.length
    /\ LET r == SliceRange(chunks.text, chunks.length, chunks.i)
       IN  chunks' = [chunks EXCEPT
                         !.out = IF r.from < r.to THEN Append(@, r) ELSE @,
                         !.i = @ + (ChunkSize - Overlap)]
    /\ UNCHANGED <<sysvars, svcvars, ingvars, dir, coll, sweep, reply>>

\* return chunks
ChunkReturn ==
    /\ chunks.at = "loop"
    /\ chunks.i >= chunks.length
    /\ chunks' = [chunks EXCEPT !.at = "returned"]
    /\ UNCHANGED <<sysvars, svcvars, ingvars, dir, coll, sweep, reply>>

NextChunk ==
    \/ \E text \in Texts : ChunkBegin(text)
    \/ ChunkStep
    \/ ChunkReturn

SpecChunk == Init /\ [][NextChunk]_vars

(* ------------------------ cleanupOrphanedRecords ------------------------ *)

\* VectorDbService.clearCollection: client.delete with the empty filter.
ClearCollection ==
    /\ sweep.clears < MaxSweeps
    /\ index' = {}
    /\ sweep' = [sweep EXCEPT !.clears = @ + 1]
    /\ UNCHANGED <<sysvars, svcvars, dir, chunks, coll, reply, docs, refs, ids, tx>>

\* getCollectionStats().pointsCount: the points of the whole collection.
PointsCount == Cardinality(index)

\* POST /ingest/cleanup: every document is marked orphaned when
\* stats.pointsCount === 0, and the marked rows are deleted; a throw of
\* getCollectionStats is caught per document and marks nothing.
CleanupOrphanedRecords(o) ==
    /\ sweep.runs < MaxSweeps
    /\ LET documents == docs
           orphanedDocuments ==
               {d \in documents : o = "ok" /\ PointsCount = 0}
           orphanedEmbeddings ==
               {r \in refs : \E d \in orphanedDocuments : r.docId = d.id}
       IN  /\ docs' = docs \ orphanedDocuments
           /\ refs' = refs \ orphanedEmbeddings
           /\ sweep' = [runs |-> sweep.runs + 1,
                        clears |-> sweep.clears,
                        verified |-> (o = "ok"),
                        orphanedDocuments |-> {d.id : d \in orphanedDocuments},
                        orphanedEmbeddings |-> orphanedEmbeddings,
                        cleanedUp |-> (orphanedDocuments # {})]
    /\ UNCHANGED <<sysvars, svcvars, dir, chunks, coll, reply, index, ids, tx>>

NextSweep ==
    \/ NextIngest
    \/ ClearCollection
    \/ \E o \in {"ok", "stats"} : CleanupOrphanedRecords(o)

SpecSweep == Init /\ [][NextSweep]_vars

(* ------------------------ VectorDbService.initialize -------------------- *)

\* A process starts: initialize() and its client.getCollections().
InitializeBegin(p, o) ==
    /\ coll.at[p] \in {"idle", "done", "failed"}
    /\ coll.inits < MaxInits
    /\ coll' = [coll EXCEPT !.inits = @ + 1,
                            !.at[p] = IF o = "ok" THEN "check" ELSE "failed"]
    /\ UNCHANGED <<sysvars, svcvars, ingvars, dir, chunks, sweep, reply>>

\* ensureCollectionExists: client.getCollection resolves, or rejects (the
\* collection is absent, or the request failed) and the catch block runs.
GetCollection(p, o) ==
    /\ coll.at[p] = "check"
    /\ coll' = [coll EXCEPT !.at[p] = IF coll.exists /\ o = "ok"
                                      THEN "done" ELSE "create"]
    /\ UNCHANGED <<sysvars, svcvars, ingvars, dir, chunks, sweep, reply>>

\* client.createCollection in the catch block: Qdrant refuses the name of
\* an existing collection, and the rejection leaves initialize by its catch.
CreateCollection(p, o) ==
    /\ coll.at[p] = "create"
    /\ coll' = IF coll.exists
               THEN [coll EXCEPT !.refused = @ + 1, !.at[p] = "failed"]
               ELSE IF o = "ok"
               THEN [coll EXCEPT !.exists = TRUE, !.created = @ + 1,
                                 !.at[p] = "done"]
               ELSE [coll EXCEPT !.at[p] = "failed"]
    /\ UNCHANGED <<sysvars, svcvars, ingvars, dir, chunks, sweep, reply>>

NextColl ==
    \/ \E p \in Initializers, o \in {"ok", "error"} : InitializeBegin(p, o)
    \/ \E p \in Initializers, o \in {"ok", "error"} : GetCollection(p, o)
    \/ \E p \in Initializers, o \in {"ok", "error"} : CreateCollection(p, o)

SpecColl == Init /\ [][NextColl]_vars

(* ------------------------------- claims -------------------------------- *)

\* C1: after any sequence of worker attempts on a job, re-deliveries
\* included, there is at most one stored artifact per (job, stage) pair.
C1_OneArtifactPerStage ==
    \A j \in JobIds, s \in Stages : StageCount(artifacts[j], s) <= 1

\* C2: in every reachable state a job whose status is completed has a
\* stored artifact for each of the stages S1, S2 and S3.
C2_CompletedHasAllArtifacts ==
    \A j \in JobIds :
        jobs[j].status = "completed" =>
            \A s \in Stages : HasStage(artifacts[j], s)

C2_Witness ==
    \E j \in JobIds :
        /\ jobs[j].status = "completed"
        /\ \A s \in Stages : HasStage(artifacts[j], s)

\* C3: once a job's status is completed or failed, no later operation
\* (worker attempt, queue re-delivery, route handler) changes its status.
C3_TerminalStatusNeverChanges ==
    [][\A j \in JobIds :
          jobs[j].status \in {"completed", "failed"} =>
              jobs'[j].status = jobs[j].status]_vars

\* C4: a job's attempts changes only on a transition to failed, and then by
\* one; setting the status to processing or completed leaves it unchanged.
C4_AttemptsOnlyOnFailure ==
    [][\A j \in JobIds :
          /\ jobs'[j].attempts # jobs[j].attempts =>
                /\ jobs'[j].status = "failed"
                /\ jobs[j].status # "failed"
                /\ jobs'[j].attempts = jobs[j].attempts + 1
          /\ (jobs'[j].status \in {"processing", "completed"}
               /\ jobs'[j].status # jobs[j].status) =>
                jobs'[j].attempts = jobs[j].attempts]_vars

C4_Witness ==
    \E j \in JobIds : jobs[j].status = "completed" /\ jobs[j].attempts = 1

\* C5: every job-level error leaves the job with status failed, a fixed
\* non-null error code and attempts incremented by exactly one.
C5_JobLevelErrorRecorded ==
    [][\A j \in JobIds :
          (jobs'[j].status = "failed" /\ jobs[j].status # "failed") =>
              /\ jobs'[j].error_code \in {"processing_error", "queue_error"}
              /\ jobs'[j].attempts = jobs[j].attempts + 1]_vars

C7_SynthesisNeedsBothStages ==
    /\ [](\A j \in JobIds : \A i \in 1..Len(artifacts[j]) :
            artifacts[j][i].stage = "S3" =>
                /\ \E a \in 1..(i - 1) : artifacts[j][a].stage = "S1"
                /\ \E b \in 1..(i - 1) : artifacts[j][b].stage = "S2")
    /\ [][\A w \in Workers :
            (/\ pc[w] = "s3"
             /\ pc'[w] # "s3"
             /\ ~(HasStage(artifacts[cur[w]], "S1")
                  /\ HasStage(artifacts[cur[w]], "S2"))) =>
                /\ pc'[w] = "catch"
                /\ err'[w] = ErrStageHistory
                /\ artifacts' = artifacts]_vars

C7_Witness ==
    \E w \in Workers :
        /\ pc[w] = "catch"
        /\ err[w] = ErrStageHistory
        /\ HasStage(artifacts[cur[w]], "S1")
        /\ ~HasStage(artifacts[cur[w]], "S2")
        /\ ~HasStage(artifacts[cur[w]], "S3")

C9_FailedOnlyAfterRetryBudget ==
    \A j \in JobIds :
        (jobs[j].status = "failed" /\ queue[j].state # "none") =>
            \/ queue[j].state = "failed"
            \/ queue[j].state = "active" /\ CurAttempt(j) = EVAL_MAX_ATTEMPTS

C11_MissingFilesNeverRetried ==
    /\ \A w \in Workers :
          err[w] = ErrFilesNotFound =>
              /\ stg[w] = "none"
              /\ \A i \in 1..Len(artifacts[cur[w]]) :
                    artifacts[cur[w]][i].attempt # CurAttempt(cur[w])
    /\ \A j \in JobIds :
          queue[j].failedReason = ErrFilesNotFound => queue[j].state = "failed"

C13_OneJobPerWorker ==
    \A j \in JobIds :
        queue[j].state = "active" =>
            Cardinality({w \in Workers : cur[w] = j /\ pc[w] # "idle"}) = 1

C13_Witness ==
    /\ \A j \in JobIds : queue[j].state = "active"
    /\ \A w \in Workers : pc[w] \in {"s1", "s2", "s3gen"}

\* C14: while a job is claimed by a worker, every change of its row is a
\* step of that one worker, so nothing comes between the worker's read of
\* the row and its write.
C14_OnlyClaimantWrites ==
    [][\A j \in JobIds :
          (queue[j].state = "active" /\ jobs'[j] # jobs[j]) =>
              \E w \in Workers :
                  /\ cur[w] = j
                  /\ pc[w] \in {"start", "complete", "catch"}
                  /\ pc'[w] # pc[w]
                  /\ \A v \in Workers \ {w} : cur[v] # j]_vars

C14_Witness ==
    \E w \in Workers, v \in Workers :
        /\ cur[w] # cur[v]
        /\ pc[w] = "rethrow"
        /\ jobs[cur[w]].status = "failed"
        /\ pc[v] = "return"
        /\ jobs[cur[v]].status = "completed"

\* C15: whatever number the response carries in a field, the saved S1 or S2
\* payload holds it clamped: sub-scores and overall scores within [1,5],
\* cv_match_rate within [0,1], an out-of-range number replaced by the limit
\* it passed.
C15_PersistedScoresClamped ==
    clamp.saved =>
        \A f \in StageFields(clamp.stage) :
            LET lo == IF f = "cv_match_rate" THEN 0 ELSE 1
                hi == IF f = "cv_match_rate" THEN 1 ELSE 5
                raw == clamp.response[f]
                kept == clamp.payload[f]
            IN  /\ lo <= kept /\ kept <= hi
                /\ raw > hi => kept = hi
                /\ raw < lo => kept = lo

C15_Witness ==
    /\ clamp.saved
    /\ clamp.stage = "S1"
    /\ clamp.response["technical_skills"] = 9
    /\ clamp.payload["technical_skills"] = 5
    /\ clamp.response["cv_match_rate"] = -2
    /\ clamp.payload["cv_match_rate"] = 0

\* C16: an operation whose every call fails with a retryable error is
\* called exactly maxAttempts times, never more, and the error raised in
\* the end is the one its last call failed with.
C16_RetryableFailsAfterMaxAttempts ==
    /\ retry.calls <= retry.maxAttempts
    /\ (/\ retry.at = "thrown"
        /\ \A i \in 1..Len(retry.errors) :
              \/ retry.errors[i].code = "ECONNRESET"
              \/ retry.errors[i].status = 429
              \/ retry.errors[i].message = <<"network", "error">>) =>
          /\ retry.calls = retry.maxAttempts
          /\ Len(retry.errors) = retry.maxAttempts
          /\ retry.raised = retry.errors[retry.maxAttempts]
          /\ retry.raised.id = retry.maxAttempts

C16_Witness ==
    /\ retry.at = "thrown"
    /\ retry.maxAttempts = 3
    /\ retry.calls = 3
    /\ retry.errors[1].status = 429
    /\ retry.errors[2].code = "ECONNRESET"
    /\ retry.raised.message = <<"network", "error">>

\* C17: an operation that fails with an error that is not retryable is
\* called once, whatever maxAttempts is, and that error is raised.
C17_NonRetryableFailsAtOnce ==
    (/\ Len(retry.errors) >= 1
     /\ retry.errors[1].code = ""
     /\ retry.errors[1].status \in {0, 400}
     /\ retry.errors[1].message # <<"network", "error">>) =>
        /\ retry.calls = 1
        /\ retry.at \in {"thrown", "rejected"}
        /\ retry.raised = retry.errors[1]

C17_Witness ==
    /\ retry.at = "thrown"
    /\ retry.maxAttempts = 4
    /\ retry.calls = 1
    /\ retry.raised.message = <<"Invalid", "API", "key">>

C20_AtMostMaxAttemptsFailuresAbsorbed ==
    /\ rag.embedFailures <= 3
    /\ rag.searchFailures <= 3

C22_ContentHashUnique ==
    \A d1 \in docs : \A d2 \in docs : d1.hash = d2.hash => d1 = d2

\* Two requests held the same new content at once; one committed and the
\* other was refused by the unique constraint.
C22_Witness ==
    \E p \in Ingesters : \E q \in Ingesters \ {p} :
        /\ tx[p].op = "ingest" /\ tx[p].at = "failed" /\ tx[p].conflict
        /\ ~tx[p].found
        /\ tx[q].op = "ingest" /\ tx[q].committed /\ ~tx[q].found
        /\ tx[q].hash = tx[p].hash

\* C23: every committed document row has the index entries of its chunks,
\* and every committed chunk reference names an entry of the index; an
\* ingestion whose embedding or index write failed left no row behind.
C23_CommittedRowHasIndexEntries ==
    /\ \A d \in docs :
          Cardinality(PointsOfDoc(index, d.id)) >= ChunksOf(d.hash)
    /\ \A r \in refs : PointsOfKey(index, r.chunk_id) # {}
    /\ \A p \in Ingesters :
          (tx[p].op = "ingest" /\ tx[p].at = "failed")
          => \A d \in docs : d.id # tx[p].doc.id \/ tx[p].doc = NoDoc

\* An ingestion saved its row, failed at the index write and was rolled back.
C23_Witness ==
    \E p \in Ingesters :
        /\ tx[p].op = "ingest" /\ tx[p].at = "failed"
        /\ tx[p].doc # NoDoc /\ ~tx[p].conflict
        /\ tx[p].embedded
        /\ \A d \in docs : d.id # tx[p].doc.id
        /\ PointsOfDoc(index, tx[p].doc.id) = {}

\* C24: every committed chunk reference's key names exactly one entry of
\* the index.
C24_OneEntryPerReferenceKey ==
    \A r \in refs : Cardinality(PointsOfKey(index, r.chunk_id)) = 1

\* C25: when an update request that ran alone fails, the document row, its
\* chunk references and its index entries are what they were when it began.
C25_FailedUpdateRestoresPriorVersion ==
    [][\A p \in Ingesters :
          (tx[p].at # "failed" /\ tx'[p].at = "failed"
             /\ tx'[p].op = "update" /\ tx'[p].solo)
          => /\ tx'[p].before.row \in docs'
             /\ {r \in refs' : r.docId = tx'[p].before.row.id} = tx'[p].before.refs
             /\ PointsOfDoc(index', tx'[p].before.row.id) = tx'[p].before.points]_vars

\* C26: when a delete request that ran alone commits, the row of the
\* document, its chunk references and the index entries upserted for it are
\* gone, and the entries of the other documents are untouched.
C26_DeleteRemovesRowsAndIndexEntries ==
    [][\A p \in Ingesters :
          (tx[p].at = "delrows" /\ tx'[p].at = "done" /\ tx'[p].solo)
          => /\ \A d \in docs' : d.id # tx[p].doc.id
             /\ \A r \in refs' : r.docId # tx[p].doc.id
             /\ PointsOfDoc(index', tx[p].doc.id) = {}
             /\ \A d \in 1..MaxCalls :
                   d # tx[p].doc.id
                   => PointsOfDoc(index', d) = PointsOfDoc(index, d)]_vars
\* C27: processDirectory tries every entry ending in '.pdf' once, whatever
\* happened to the entries before it: each one tried is either among the
\* processed or in failedFiles, a failure never ends the call, and when the
\* call returns every readable PDF has its content among the document rows.
C27_DirectoryContinuesPastFailures ==
    /\ dir.at \in {"loop", "returned"}
       => \A k \in 1..(dir.i - 1) :
             /\ dir.files[k].pdf
                => (k \in Elems(dir.ingested)) # (k \in Elems(dir.failedFiles))
             /\ ~dir.files[k].pdf
                => k \notin Elems(dir.ingested) \cup Elems(dir.failedFiles)
    /\ dir.at = "returned"
       => /\ dir.i = Len(dir.files) + 1
          /\ Len(dir.documents) = Len(dir.ingested)
          /\ \A k \in 1..Len(dir.files) :
                (dir.files[k].pdf /\ dir.files[k].o = "ok")
                => \E d \in docs : d.hash = dir.files[k].hash
    /\ dir.at = "thrown" => dir.files = <<>>

\* A file failed and a later file of the same listing was ingested.
C27_Witness ==
    /\ dir.at = "returned"
    /\ \E j \in Elems(dir.failedFiles) : \E k \in Elems(dir.ingested) :
          /\ j < k
          /\ dir.files[j].o = "pdf"
          /\ \E d \in docs : d.hash = dir.files[k].hash
\* C28: chunkText of a text of n words returns ceil(n / 448) chunks, and
\* every word of the text is in one of them.
C28_ChunkCountAndCoverage ==
    chunks.at = "returned"
    => /\ Len(chunks.out) * (ChunkSize - Overlap) >= chunks.text.n
       /\ (Len(chunks.out) - 1) * (ChunkSize - Overlap) < chunks.text.n
       /\ \A t \in 0..(chunks.text.n - 1) :
             \E c \in 1..Len(chunks.out) :
                chunks.out[c].from <= t /\ t < chunks.out[c].to
\* C29: a sweep that could read the collection removes exactly the
\* documents of which a chunk reference names no index entry, together
\* with their chunk references, and reports them.
C29_SweepRemovesExactlyOrphans ==
    [][(sweep'.runs # sweep.runs /\ sweep'.verified)
       => LET orphans == {d \in docs :
                            \E r \in refs : /\ r.docId = d.id
                                             /\ PointsOfKey(index, r.chunk_id) = {}}
          IN  /\ docs \ docs' = orphans
              /\ refs \ refs' = {r \in refs : \E d \in orphans : r.docId = d.id}
              /\ sweep'.orphanedDocuments = {d.id : d \in orphans}]_vars

\* C30: the collection is created at most once and createCollection is
\* never sent for a collection that exists.
C30_EnsureCollectionIdempotent ==
    coll.created <= 1 /\ coll.refused = 0
C32_ResultShapeFollowsStatus ==
    \A j \in JobIds :
        jobs[j].status # "none"
        => LET r == GetResult(j)
           IN  /\ r.status = jobs[j].status
               /\ r.status \in {"queued", "processing", "completed", "failed"}
               /\ r.status \in {"queued", "processing"}
                  => r.keys = {"id", "status"} /\ r.http = 200
               /\ r.status = "completed"
                  => /\ r.keys = {"id", "status", "result"}
                     /\ r.http = 200
                     /\ r.stages = {"S1", "S2", "S3"}
               /\ r.status = "failed"
                  => /\ r.keys = {"id", "status", "error", "error_code",
                                  "attempts", "message"}
                     /\ r.error_code = jobs[j].error_code
                     /\ r.attempts = jobs[j].attempts

\* One job is answered with its result while another is answered as failed
\* and met a failure of its own.
C32_Witness ==
    \E j \in JobIds : \E k \in JobIds :
        /\ GetResult(j).keys = {"id", "status", "result"}
        /\ GetResult(k).http = 500
        /\ GetResult(k).attempts >= 1
        /\ GetResult(k).error_code = "processing_error"
\* C33: a POST /evaluate naming a cv or a report that is not in the files
\* table is answered 404 and creates no job row and no queue entry.
C33_MissingFileRejectedWithoutJob ==
    [][(reply' # reply /\ ~reply'.found)
       => /\ reply'.http = 404
          /\ reply'.id = 0
          /\ jobs' = jobs
          /\ queue' = queue]_vars

\* The cv was there, the report was not: the request was refused and no
\* job exists.
C33_Witness ==
    /\ reply.http = 404
    /\ FileFound(reply.cvFileId, "cv")
    /\ ~FileFound(reply.reportFileId, "report")
    /\ \A j \in JobIds : jobs[j].status = "none"
C35_SynthesisReadsCurrentAttempt ==
    \A w \in Workers :
        (pc[w] = "s3gen" /\ call[w] = "processEvaluation")
        => \A r \in FindOneArtifact(artifacts[cur[w]], "S1")
                     \cup FindOneArtifact(artifacts[cur[w]], "S2") :
              r.attempt = CurAttempt(cur[w])

\* C36: a job row has an error code exactly when its status is failed.
C36_ErrorCodeIffFailed ==
    \A j \in JobIds :
        jobs[j].status # "none"
        => (jobs[j].error_code # "null" <=> jobs[j].status = "failed")
\* C39: a step changes the row or the artifacts of a job only when it is
\* the request creating that job or a step of the worker processing it;
\* the rows and artifacts of every other job stay as they are.
C39_JobsAreIndependent ==
    [][\A j \in JobIds :
          (jobs'[j] # jobs[j] \/ artifacts'[j] # artifacts[j])
          => \/ jobs[j].status = "none" /\ artifacts'[j] = artifacts[j]
             \/ \E w \in Workers : /\ cur[w] = j
                                    /\ pc'[w] # pc[w]
                                    /\ \A k \in JobIds \ {j} :
                                          /\ jobs'[k] = jobs[k]
                                          /\ artifacts'[k] = artifacts[k]]_vars

\* Two workers are inside different jobs at once, one of which has
\* already failed once and has rows from that attempt.
C39_Witness ==
    \E w \in Workers : \E v \in Workers \ {w} :
        /\ cur[w] # 0 /\ cur[v] # 0 /\ cur[w] # cur[v]
        /\ pc[w] = "s2" /\ pc[v] = "catch"
        /\ jobs[cur[w]].attempts = 1
        /\ jobs[cur[v]].status = "processing"
        /\ Len(artifacts[cur[w]]) >= 2
\* C37: when an ingestion that had saved its document row fails, the index
\* holds no entry of that document.
C37_FailedIngestLeavesNoIndexEntries ==
    [][\A p \in Ingesters :
          (tx[p].at # "failed" /\ tx'[p].at = "failed"
             /\ tx'[p].op = "ingest" /\ tx'[p].doc # NoDoc)
          => PointsOfDoc(index', tx'[p].doc.id) = {}]_vars

\* C38: when a delete request that ran alone fails, the document row, its
\* chunk references and its index entries are what they were when it began.
C38_FailedDeleteChangesNothing ==
    [][\A p \in Ingesters :
          (tx[p].at # "failed" /\ tx'[p].at = "failed"
             /\ tx'[p].op = "delete" /\ tx'[p].solo)
          => /\ tx'[p].before.row # NoDoc => tx'[p].before.row \in docs'
             /\ {r \in refs' : r.docId = tx'[p].doc.id} = tx'[p].before.refs
             /\ PointsOfDoc(index', tx'[p].doc.id) = tx'[p].before.points]_vars

\* The delete of a document with index entries failed at its relational
\* part, after deletePoints had resolved.
C38_Witness ==
    \E p \in Ingesters :
        /\ tx[p].op = "delete" /\ tx[p].at = "failed" /\ tx[p].solo
        /\ tx[p].rollbacks = 1
        /\ tx[p].before.row \in docs
        /\ tx[p].before.points # {}
        /\ PointsOfDoc(index, tx[p].doc.id) = tx[p].before.points

\* C40: a call that has ended committed its transaction or rolled it back,
\* not both, and released its connection once.
C40_TransactionEndedAndReleased ==
    \A p \in Ingesters :
        tx[p].at \in {"done", "failed"}
        => /\ tx[p].begun => tx[p].commits + tx[p].rollbacks = 1
           /\ tx[p].releases = 1
====
